---- MODULE Spec2Model ----
(***************************************************************************)
(* Model of network-test: the ping producer (pkg/ping/ping.go, Pinger.Run  *)
(* with its supervising, scanner and wait goroutines), the bubbletea       *)
(* consumer loop (main.go, model.tick / model.Update) and the statistics   *)
(* engine (main.go, Window / Histogram / Stats).                           *)
(*                                                                         *)
(* Channels pings, errs and finished are unbuffered: a send is a pending   *)
(* state of the sender that a receiver completes.  A send on a closed      *)
(* channel and a close of a closed channel panic, which ends the program.  *)
(***************************************************************************)
EXTENDS Integers, Sequences, FiniteSets, TLC

\* --------------------------------------------------------------------------
\* Bounds of the model
\* --------------------------------------------------------------------------

\* number of output lines the scanner reads in one run
MaxLines == 2

\* last clock reading (seconds since test() built the Stats value)
MaxClock == 3

\* the -window flag (seconds) given on the command line
WindowSize == 2

\* --------------------------------------------------------------------------
\* Durations (time.Duration counts nanoseconds)
\* --------------------------------------------------------------------------

Millisecond == 1000 * 1000

Second == 1000 * Millisecond

\* time.Duration.Milliseconds: integer division, truncating
Milliseconds(d) == d \div Millisecond

\* --------------------------------------------------------------------------
\* Output lines of the ping subprocess, as sequences of bytes: an ASCII byte
\* is written as its character, a byte from 80 to FF as "x80" to "xFF"
\* --------------------------------------------------------------------------

HighBytes ==
    << "x80", "x81", "x82", "x83", "x84", "x85", "x86", "x87",
       "x88", "x89", "x8A", "x8B", "x8C", "x8D", "x8E", "x8F",
       "x90", "x91", "x92", "x93", "x94", "x95", "x96", "x97",
       "x98", "x99", "x9A", "x9B", "x9C", "x9D", "x9E", "x9F",
       "xA0", "xA1", "xA2", "xA3", "xA4", "xA5", "xA6", "xA7",
       "xA8", "xA9", "xAA", "xAB", "xAC", "xAD", "xAE", "xAF",
       "xB0", "xB1", "xB2", "xB3", "xB4", "xB5", "xB6", "xB7",
       "xB8", "xB9", "xBA", "xBB", "xBC", "xBD", "xBE", "xBF",
       "xC0", "xC1", "xC2", "xC3", "xC4", "xC5", "xC6", "xC7",
       "xC8", "xC9", "xCA", "xCB", "xCC", "xCD", "xCE", "xCF",
       "xD0", "xD1", "xD2", "xD3", "xD4", "xD5", "xD6", "xD7",
       "xD8", "xD9", "xDA", "xDB", "xDC", "xDD", "xDE", "xDF",
       "xE0", "xE1", "xE2", "xE3", "xE4", "xE5", "xE6", "xE7",
       "xE8", "xE9", "xEA", "xEB", "xEC", "xED", "xEE", "xEF",
       "xF0", "xF1", "xF2", "xF3", "xF4", "xF5", "xF6", "xF7",
       "xF8", "xF9", "xFA", "xFB", "xFC", "xFD", "xFE", "xFF" >>

\* the place of c in seq, 0 when it is not in it
IndexIn(seq, c) ==
    IF \E i \in 1..Len(seq) : seq[i] = c
    THEN CHOOSE i \in 1..Len(seq) : seq[i] = c
    ELSE 0

\* the value of the i-th high byte (0x80 + i - 1), 0 for i = 0
HighByteVal(i) == IF i = 0 THEN 0 ELSE 127 + i

\* the value of a byte, 0 standing for every ASCII byte
ByteVal(c) == HighByteVal(IndexIn(HighBytes, c))

\* the value of the byte at position i of line, 0 past its end
ByteAt(line, i) == IF i <= Len(line) THEN ByteVal(line[i]) ELSE 0

\* utf8.DecodeRuneInString on the bytes b0 b1 b2 b3: the width of the first
\* rune.  The first byte gives the size and the range of the second byte;
\* an invalid or cut-off encoding is a rune of width 1.
RuneWidth(b0, b1, b2, b3) ==
    LET size == CASE 194 <= b0 /\ b0 <= 223 -> 2
                  [] 224 <= b0 /\ b0 <= 239 -> 3
                  [] 240 <= b0 /\ b0 <= 244 -> 4
                  [] OTHER -> 1
        lo == CASE b0 = 224 -> 160
                [] b0 = 240 -> 144
                [] OTHER -> 128
        hi == CASE b0 = 237 -> 159
                [] b0 = 244 -> 143
                [] OTHER -> 191
        cont(x) == 128 <= x /\ x <= 191
    IN  IF size = 1 THEN 1
        ELSE IF b1 < lo \/ hi < b1 THEN 1
        ELSE IF size = 2 THEN 2
        ELSE IF ~cont(b2) THEN 1
        ELSE IF size = 3 THEN 3
        ELSE IF ~cont(b3) THEN 1
        ELSE 4

\* the width in bytes of the rune that starts at position p of line
RuneLen(line, p) ==
    RuneWidth(ByteAt(line, p), ByteAt(line, p + 1),
              ByteAt(line, p + 2), ByteAt(line, p + 3))

Digits == <<"0", "1", "2", "3", "4", "5", "6", "7", "8", "9">>

IsDigit(c) == \E i \in 1..Len(Digits) : Digits[i] = c

DigitVal(c) == (CHOOSE i \in 1..Len(Digits) : Digits[i] = c) - 1

LitBytesFrom == <<" ", "b", "y", "t", "e", "s", " ", "f", "r", "o", "m", " ">>

LitIcmpSeq == <<":", " ", "i", "c", "m", "p", "_", "s", "e", "q", "=">>

LitTtl == <<" ", "t", "t", "l", "=">>

LitTime == <<" ", "t", "i", "m", "e", "=">>

LitMs == <<" ", "m", "s">>

LitPING == <<"P", "I", "N", "G">>

\* "64 bytes from <addr>: icmp_seq=7 ttl=64 time=<t> ms"
ReplyFrom(addr, t) ==
    <<"6", "4">> \o LitBytesFrom \o addr
        \o LitIcmpSeq \o <<"7">> \o LitTtl \o <<"6", "4">> \o LitTime \o t \o LitMs

\* "64 bytes from 1.2.3.4: icmp_seq=7 ttl=64 time=<t> ms"
ReplyLine(t) == ReplyFrom(<<"1", ".", "2", ".", "3", ".", "4">>, t)

\* the lines the subprocess writes in the model (all within the 64 KiB the
\* scanner takes as one line), each with the latency in
\* nanoseconds its text states (-1: the line states none): a blank line, the
\* banner, replies of 1.0 ms and 3.5 ms, a line that is no reply, a
\* reply-shaped line whose time field is no number, and a reply of 1.0 ms
\* whose address has the two-byte character U+00B5 in the place of a dot
LineTable ==
    << [ text   |-> <<>>,
         sample |-> -1 ],
       [ text   |-> LitPING \o <<" ", "h">>,
         sample |-> -1 ],
       [ text   |-> ReplyLine(<<"1", ".", "0">>),
         sample |-> 1 * Millisecond ],
       [ text   |-> ReplyLine(<<"3", ".", "5">>),
         sample |-> 3 * Millisecond + Millisecond \div 2 ],
       [ text   |-> <<"R", "e", "q", "u", "e", "s", "t", " ", "t", "i", "m", "e",
                      "o", "u", "t">>,
         sample |-> -1 ],
       [ text   |-> ReplyLine(<<"1", "x", "5">>),
         sample |-> -1 ],
       [ text   |-> ReplyFrom(<<"1", "xC2", "xB5", "2", ".", "3", ".", "4">>,
                              <<"1", ".", "0">>),
         sample |-> 1 * Millisecond ] >>

Lines == [i \in 1..Len(LineTable) |-> LineTable[i].text]

LineIds == 1..Len(Lines)

\* --------------------------------------------------------------------------
\* PING_LINE and processLine (pkg/ping/ping.go)
\* --------------------------------------------------------------------------

PatDigits == [kind |-> "digits"]

PatAny == [kind |-> "any"]

PatLit(text) == [kind |-> "lit", text |-> text]

\* ^\d+ bytes from \d+.\d+.\d+.\d+: icmp_seq=\d+ ttl=\d+ time=
PING_LINE_Prefix ==
    << PatDigits, PatLit(LitBytesFrom),
       PatDigits, PatAny, PatDigits, PatAny, PatDigits, PatAny, PatDigits,
       PatLit(LitIcmpSeq), PatDigits, PatLit(LitTtl), PatDigits, PatLit(LitTime) >>

\* (\d+.\d+)
PING_LINE_Group == << PatDigits, PatAny, PatDigits >>

\*  ms$
PING_LINE_Suffix == << PatLit(LitMs) >>

\* the positions after one pattern element, started at any position of S;
\* "." takes one rune, any but the newline
AfterElem(e, line, S) ==
    CASE e.kind = "digits" ->
           { q \in 2..(Len(line) + 1) :
               \E p \in S : p < q /\ \A i \in p..(q - 1) : IsDigit(line[i]) }
      [] e.kind = "any" ->
           { p + RuneLen(line, p) :
               p \in { q \in S : q <= Len(line) /\ line[q] # "\n" } }
      [] e.kind = "lit" ->
           { p + Len(e.text) :
               p \in { q \in S : /\ q + Len(e.text) - 1 <= Len(line)
                                 /\ SubSeq(line, q, q + Len(e.text) - 1) = e.text } }

RECURSIVE MatchFrom(_, _, _)
MatchFrom(pat, line, S) ==
    IF pat = <<>> THEN S
    ELSE MatchFrom(Tail(pat), line, AfterElem(Head(pat), line, S))

\* PING_LINE.FindStringSubmatch: the <<first, last+1>> positions of group 1
\* in every match of the whole line (empty when the line does not match)
Submatches(line) ==
    { pq \in MatchFrom(PING_LINE_Prefix, line, {1}) \X (1..(Len(line) + 1)) :
        /\ pq[2] \in MatchFrom(PING_LINE_Group, line, {pq[1]})
        /\ (Len(line) + 1) \in MatchFrom(PING_LINE_Suffix, line, {pq[2]}) }

\* the number of leading characters of s that are digits (leadingInt)
LeadingDigits(s) ==
    CHOOSE n \in 0..Len(s) :
        /\ \A i \in 1..n : IsDigit(s[i])
        /\ n = Len(s) \/ ~IsDigit(s[n + 1])

\* the number of leading characters of s that are neither "." nor a digit
UnitLen(s) ==
    CHOOSE n \in 0..Len(s) :
        /\ \A i \in 1..n : s[i] # "." /\ ~IsDigit(s[i])
        /\ n = Len(s) \/ s[n + 1] = "." \/ IsDigit(s[n + 1])

RECURSIVE DecVal(_)
DecVal(s) ==
    IF s = <<>> THEN 0
    ELSE 10 * DecVal(SubSeq(s, 1, Len(s) - 1)) + DigitVal(s[Len(s)])

RECURSIVE Pow10(_)
Pow10(n) == IF n = 0 THEN 1 ELSE 10 * Pow10(n - 1)

\* time.unitMap, in nanoseconds; 0 stands for "unknown unit".  A string is
\* its bytes: the micro sign U+00B5 is the bytes C2 B5 and the Greek letter
\* mu U+03BC is the bytes CE BC.  The values of "m" and "h" are beyond the
\* numbers TLC evaluates (below 2^31), so no line of LineTable uses them.
UnitNs(u) ==
    CASE u = <<"n", "s">> -> 1
      [] u = <<"u", "s">> -> 1000
      [] u = <<"xC2", "xB5", "s">> -> 1000
      [] u = <<"xCE", "xBC", "s">> -> 1000
      [] u = <<"m", "s">> -> Millisecond
      [] u = <<"s">> -> Second
      [] u = <<"m">> -> 60 * Second
      [] u = <<"h">> -> 60 * 60 * Second
      [] OTHER -> 0

RECURSIVE Pow2(_)
Pow2(n) == IF n = 0 THEN 1 ELSE 2 * Pow2(n - 1)

\* x > 1<<63; a number below 2^31 is settled without computing 2^63
Above63(x) == x \div 2 >= Pow2(30) /\ x > Pow2(63)

\* leadingInt reports an overflow on a run of digits: before some digit the
\* value read so far exceeds 1<<63 / 10, or with it it exceeds 1<<63 (only
\* a run of 19 digits or more can)
LeadingIntOverflows(digs) ==
    /\ Len(digs) >= 19
    /\ \E k \in 1..Len(digs) :
         \/ DecVal(SubSeq(digs, 1, k - 1)) > Pow2(63) \div 10
         \/ DecVal(SubSeq(digs, 1, k)) > Pow2(63)

\* leadingFraction: the number of digits of the run it takes into the
\* fraction; from the first digit that would overflow on, the digits are
\* skipped (a run of 18 digits or fewer is taken whole)
FractionDigits(digs) ==
    IF Len(digs) <= 18 THEN Len(digs)
    ELSE LET fits(j) ==
                 /\ DecVal(SubSeq(digs, 1, j - 1)) <= (Pow2(63) - 1) \div 10
                 /\ DecVal(SubSeq(digs, 1, j)) <= Pow2(63)
         IN  CHOOSE k \in 0..Len(digs) :
                 /\ \A j \in 1..k : fits(j)
                 /\ k = Len(digs) \/ ~fits(k + 1)

\* p * 2^-x for x < 0, else p
ScaleNum(p, x) == IF x < 0 THEN p * Pow2(0 - x) ELSE p

\* q * 2^x for x >= 0, else q
ScaleDen(q, x) == IF x < 0 THEN q ELSE q * Pow2(x)

\* the quotient n / d rounded to the nearest integer, ties to even
RoundHalfEven(n, d) ==
    IF 2 * (n % d) > d \/ (2 * (n % d) = d /\ (n \div d) % 2 = 1)
    THEN n \div d + 1
    ELSE n \div d

\* the exponent e for which p / q lies in [2^52, 2^53) * 2^e, or the least
\* exponent -1074 when p / q is below 2^-1022 (a subnormal number)
Float64Exp(p, q) ==
    IF ScaleNum(p, 0 - 1074) < Pow2(52) * q THEN 0 - 1074
    ELSE CHOOSE x \in (0 - 1074)..971 :
             /\ Pow2(52) * ScaleDen(q, x) <= ScaleNum(p, x)
             /\ ScaleNum(p, x) < Pow2(53) * ScaleDen(q, x)

\* p / q rounded to a multiple of 2^e
Float64At(p, q, e) == [m |-> RoundHalfEven(ScaleNum(p, e), ScaleDen(q, e)), e |-> e]

\* the float64 nearest to p / q for integers p, q > 0 with p / q below
\* 2^1024, ties to even, as m * 2^e with m <= 2^53
Float64(p, q) == Float64At(p, q, Float64Exp(p, q))

\* the float64 product of two float64 values: the float64 nearest to
\* x.m * y.m * 2^(x.e + y.e)
Float64Mul(x, y) ==
    Float64(ScaleNum(x.m * y.m, 0 - (x.e + y.e)),
            ScaleDen(1, 0 - (x.e + y.e)))

\* uint64(x) of a float64 value: truncation
Float64Trunc(x) == IF x.e < 0 THEN x.m \div Pow2(0 - x.e) ELSE x.m * Pow2(x.e)

\* the float64 quotient of two float64 values: the float64 nearest to
\* (x.m / y.m) * 2^(x.e - y.e)
Float64Div(x, y) ==
    Float64(ScaleNum(x.m, 0 - (x.e - y.e)), ScaleDen(y.m, 0 - (x.e - y.e)))

\* leadingFraction's scale after k digits: 1 multiplied k times by 10 in
\* float64, each product rounded (exact up to 10^22); finite for k <= 308
RECURSIVE FractionScale(_)
FractionScale(k) ==
    IF k = 0 THEN Float64(1, 1)
    ELSE Float64Mul(FractionScale(k - 1), Float64(10, 1))

\* uint64(float64(f) * (float64(unit) / scale)), scale being leadingFraction's
\* after k digits.  When 10^k divides unit and k is at most 9, the scale, the
\* quotient, the factors and the product are integers below 2^53 and the
\* floating-point result is exact.  Beyond 308 digits (all but the last 19
\* at most being zeros) scale is +Inf, the quotient is 0 and so is the
\* product.
FractionNs(f, k, unit) ==
    IF f = 0 THEN 0
    ELSE IF k <= 9 /\ unit % Pow10(k) = 0 THEN f * (unit \div Pow10(k))
    ELSE IF k > 308 THEN 0
    ELSE Float64Trunc(Float64Mul(Float64(f, 1),
                                 Float64Div(Float64(unit, 1), FractionScale(k))))

\* the sum d + v in uint64
Wrap64(x) == IF x \div 2 < Pow2(30) THEN x ELSE x % Pow2(64)

\* the loop of time.ParseDuration over the terms <digits>[.<digits>]<unit>
\* of s, d being the sum of the terms before s: the sum of all terms in
\* nanoseconds, or -1 for an error.  TLC evaluates the terms whose numbers
\* stay below 2^31 and whose fraction scales exactly (see FractionNs); every
\* line of LineTable is such.
RECURSIVE ParseTerms(_, _)

\* d += v; if d > 1<<63 then error; then the terms that remain
TermSum(sum, rest) == IF Above63(sum) THEN -1 ELSE ParseTerms(rest, sum)

\* v > 1<<63 / unit; v *= unit; v += the fraction; v > 1<<63.  No unit
\* exceeds 2^42, so an integer part below 2^20 passes the first test
\* without computing it.
TermValue(int, f, k, unit, rest, d) ==
    IF int >= Pow2(20) /\ int > Pow2(63) \div unit THEN -1
    ELSE IF f > 0 /\ Above63(int * unit + FractionNs(f, k, unit)) THEN -1
    ELSE TermSum(Wrap64(d + int * unit + FractionNs(f, k, unit)), rest)

\* after the digits: one of them must be there (pre || post), then the
\* unit, the characters up to the next "." or digit, which must be known
TermUnit(intDigs, fracDigs, s, d) ==
    IF intDigs = <<>> /\ fracDigs = <<>> THEN -1
    ELSE IF UnitLen(s) = 0 THEN -1
    ELSE IF UnitNs(SubSeq(s, 1, UnitLen(s))) = 0 THEN -1
    ELSE TermValue(DecVal(intDigs),
                   DecVal(SubSeq(fracDigs, 1, FractionDigits(fracDigs))),
                   FractionDigits(fracDigs),
                   UnitNs(SubSeq(s, 1, UnitLen(s))),
                   SubSeq(s, UnitLen(s) + 1, Len(s)), d)

\* after leadingInt: its overflow error, then the fraction when a "." follows
TermFraction(intDigs, s, d) ==
    IF LeadingIntOverflows(intDigs) THEN -1
    ELSE IF s # <<>> /\ s[1] = "."
    THEN TermUnit(intDigs, SubSeq(s, 2, 1 + LeadingDigits(Tail(s))),
                  SubSeq(s, 2 + LeadingDigits(Tail(s)), Len(s)), d)
    ELSE TermUnit(intDigs, <<>>, s, d)

ParseTerms(s, d) ==
    IF s = <<>> THEN d
    ELSE TermFraction(SubSeq(s, 1, LeadingDigits(s)),
                      SubSeq(s, LeadingDigits(s) + 1, Len(s)), d)

\* time.ParseDuration: an optional sign, then a lone "0" (zero, no unit
\* needed), or one or more terms; err is its error return.  A sum of 1<<63
\* is a duration only under a minus sign.
ParseDuration(s) ==
    LET signed == s # <<>> /\ (s[1] = "-" \/ s[1] = "+")
        neg == signed /\ s[1] = "-"
        r == IF signed THEN Tail(s) ELSE s
    IN  IF r = <<"0">> THEN [err |-> FALSE, d |-> 0]
        ELSE IF r = <<>> THEN [err |-> TRUE, d |-> 0]
        ELSE LET d == ParseTerms(r, 0)
             IN  IF d < 0 THEN [err |-> TRUE, d |-> 0]
                 ELSE IF neg THEN [err |-> FALSE, d |-> 0 - d]
                 ELSE IF d \div 2 >= Pow2(30) /\ d > Pow2(63) - 1
                 THEN [err |-> TRUE, d |-> 0]
                 ELSE [err |-> FALSE, d |-> d]

\* mutant of processLine: a line that does not match PING_LINE is reported
\* as a sample of zero duration instead of an error
processLine_ZeroOnNoMatch(line) ==
    LET matches == Submatches(line)
    IN  IF matches = {} THEN [ok |-> TRUE, d |-> 0]
        ELSE LET pq == CHOOSE x \in matches : TRUE
                 r == ParseDuration(SubSeq(line, pq[1], pq[2] - 1) \o <<"m", "s">>)
             IN  [ok |-> ~r.err, d |-> r.d]

\* processLine: [ok |-> FALSE] is its error return
processLine(line) ==
    LET matches == Submatches(line)
    IN  IF matches = {} THEN [ok |-> FALSE, d |-> 0]
        ELSE LET pq == CHOOSE x \in matches : TRUE
                 r == ParseDuration(SubSeq(line, pq[1], pq[2] - 1) \o <<"m", "s">>)
             IN  [ok |-> ~r.err, d |-> r.d]

\* strings.HasPrefix(line, "PING")
HasPrefixPING(line) ==
    Len(line) >= Len(LitPING) /\ SubSeq(line, 1, Len(LitPING)) = LitPING

\* the body of the scanner loop for one line: the duration it sends on
\* pings, or no send (the three continue statements)
ScanLine(line) ==
    IF Len(line) < 1 THEN [send |-> FALSE, d |-> 0]
    ELSE IF HasPrefixPING(line) THEN [send |-> FALSE, d |-> 0]
    ELSE LET r == processLine(line)
         IN  IF ~r.ok THEN [send |-> FALSE, d |-> 0] ELSE [send |-> TRUE, d |-> r.d]

\* a line that is not blank, is not the PING banner and does not match
\* PING_LINE
Unrecognised(line) ==
    /\ Len(line) >= 1
    /\ ~HasPrefixPING(line)
    /\ Submatches(line) = {}

\* Unrecognised of every line of the model, computed once
Dropped == [i \in LineIds |-> Unrecognised(Lines[i])]

\* ScanLine of every line of the model, computed once
Scanned == [i \in LineIds |-> ScanLine(Lines[i])]

\* --------------------------------------------------------------------------
\* Window, Histogram, Stats (main.go)
\* --------------------------------------------------------------------------

\* Window{}
EmptyWindow == [Min |-> 0, Max |-> 0, Total |-> 0, Count |-> 0]

WindowUpdate(w, duration) ==
    [ Min   |-> IF w.Min = 0 \/ duration < w.Min THEN duration ELSE w.Min,
      Max   |-> IF duration > w.Max THEN duration ELSE w.Max,
      Total |-> w.Total + duration,
      Count |-> w.Count + 1 ]

\* mutant of WindowReset: one field is not cleared
WindowReset_KeepsTotal(w) == [Min |-> 0, Max |-> 0, Total |-> w.Total, Count |-> 0]

WindowReset(w) == [Min |-> 0, Max |-> 0, Total |-> 0, Count |-> 0]

WindowAverage(w) == IF w.Count = 0 THEN 0 ELSE w.Total \div w.Count

\* the thresholds test() passes to NewHistogram
Thresholds == <<1, 2, 5, 10, 20, 50, 100, 200, 500, 1000>>

NewHistogram(thresholds) ==
    [ thresholds |-> thresholds,
      buckets    |-> [i \in 1..Len(thresholds) |-> 0],
      total      |-> 0 ]

\* mutant of HistogramUpdate: the comparison is duration < threshold
HistogramUpdate_Strict(h, duration) ==
    LET hit == { i \in 1..Len(h.thresholds) : duration < h.thresholds[i] }
        withBucket ==
            IF hit = {} THEN h
            ELSE LET first == CHOOSE i \in hit : \A j \in hit : i <= j
                 IN  [h EXCEPT !.buckets[first] = @ + 1]
    IN  [withBucket EXCEPT !.total = @ + 1]

\* the loop stops at the first threshold the duration does not exceed
HistogramUpdate(h, duration) ==
    LET hit == { i \in 1..Len(h.thresholds) : duration <= h.thresholds[i] }
        withBucket ==
            IF hit = {} THEN h
            ELSE LET first == CHOOSE i \in hit : \A j \in hit : i <= j
                 IN  [h EXCEPT !.buckets[first] = @ + 1]
    IN  [withBucket EXCEPT !.total = @ + 1]

\* the Stats value test() builds; the clock reads 0 at that moment
InitStats ==
    [ windowSize  |-> WindowSize,
      windowStart |-> 0,
      window      |-> EmptyWindow,
      lastWindow  |-> EmptyWindow,
      totals      |-> EmptyWindow,
      histogram   |-> NewHistogram(Thresholds) ]

\* mutant of StatsUpdate: the comparison is >= instead of >
StatsUpdate_RollsAtEqual(s, duration, t1, t2) ==
    LET routed == [s EXCEPT !.window = WindowUpdate(@, duration),
                            !.totals = WindowUpdate(@, duration),
                            !.histogram = HistogramUpdate(@, duration)]
    IN  IF t1 - routed.windowStart >= routed.windowSize
        THEN [routed EXCEPT !.lastWindow = routed.window,
                            !.window = WindowReset(routed.window),
                            !.windowStart = t2]
        ELSE routed

\* mutant of StatsUpdate: the lifetime window is updated only when the
\* window does not roll over
StatsUpdate_TotalsInElse(s, duration, t1, t2) ==
    LET routed == [s EXCEPT !.window = WindowUpdate(@, duration),
                            !.histogram = HistogramUpdate(@, duration)]
    IN  IF t1 - routed.windowStart > routed.windowSize
        THEN [routed EXCEPT !.lastWindow = routed.window,
                            !.window = WindowReset(routed.window),
                            !.windowStart = t2]
        ELSE [routed EXCEPT !.totals = WindowUpdate(@, duration)]

\* mutant of StatsUpdate: the rollover check runs before the sample is
\* routed, and the sample opens the new window
StatsUpdate_RollsFirst(s, duration, t1, t2) ==
    LET rolled == IF t1 - s.windowStart > s.windowSize
                  THEN [s EXCEPT !.lastWindow = s.window,
                                 !.window = WindowReset(s.window),
                                 !.windowStart = t2]
                  ELSE s
    IN  [rolled EXCEPT !.window = WindowUpdate(@, duration),
                       !.totals = WindowUpdate(@, duration),
                       !.histogram = HistogramUpdate(@, duration)]

\* Stats.Update; t1 and t2 are the two readings of time.Now()
StatsUpdate(s, duration, t1, t2) ==
    LET routed == [s EXCEPT !.window = WindowUpdate(@, duration),
                            !.totals = WindowUpdate(@, duration),
                            !.histogram = HistogramUpdate(@, duration)]
    IN  IF t1 - routed.windowStart > routed.windowSize
        THEN [routed EXCEPT !.lastWindow = routed.window,
                            !.window = WindowReset(routed.window),
                            !.windowStart = t2]
        ELSE routed

\* --------------------------------------------------------------------------
\* State
\* --------------------------------------------------------------------------

VARIABLES
    ctxDone,      \* ctx.Done() is closed
    proc,         \* the ping subprocess: notStarted, running, exitedOk, exitedErr
    supPc,        \* the supervising goroutine of Run (ping.go 40-97)
    supErr,       \* the error value it is about to send on errs
    scanPc,       \* the scanner goroutine (ping.go 57-78)
    scanVal,      \* the duration it is sending on pings
    waitPc,       \* the wait goroutine (ping.go 81-89)
    pingsClosed,  \* close(pings) has run
    errsClosed,   \* close(errs) has run
    crash,        \* the panics the runtime reported when it ended the program
    supPanic,     \* the panics raised so far in the supervising goroutine,
                  \* whose deferred calls are still running
    linesRead,    \* the number of lines scanner.Scan() has returned
    loopPc,       \* Program.Run: init (before the first render), running,
                  \* quit, viewPanic (model.View panicked and Run returned)
    nanInt,       \* what int(NaN) is in this build (main.go 154)
    tickPc,       \* the command in flight: select (tick is waiting), result
                  \* (it returned tickMsg), idle (no command in flight)
    tickMsg,      \* the message the command returned
    quitCmd,      \* Update returned tea.Quit and its message is not yet handled
    stats,        \* m.stats
    now,          \* the last reading of the clock
    pingsRecv,    \* history: the values tick received from pings
    errsSent,     \* history: the values whose send on errs completed
    errsRecv,     \* history: the values tick received from errs
    applied,      \* history: the arguments of Stats.Update
    cancelSeen,   \* history: tick selected ctx.Done() or Update handled a quit key
    stated,       \* history: the latencies stated by the lines read, in order
    dropLog,      \* history: for each unrecognised line read, Len(stated) then
    rollLog       \* history: for each rollover, the number of Stats.Update
                  \* calls made up to and including the one that rolled over

vars ==
    << ctxDone, proc, supPc, supErr, scanPc, scanVal, waitPc, pingsClosed,
       errsClosed, crash, supPanic, linesRead, loopPc, nanInt, tickPc, tickMsg,
       quitCmd, stats, now, pingsRecv, errsSent, errsRecv, applied, cancelSeen,
       stated, dropLog, rollLog >>

producerVars ==
    << proc, supPc, supErr, scanPc, scanVal, waitPc, pingsClosed, errsClosed,
       supPanic, linesRead, errsSent, stated, dropLog >>

consumerVars ==
    << loopPc, nanInt, tickPc, tickMsg, quitCmd, stats, now, pingsRecv, errsRecv,
       applied, cancelSeen, rollLog >>

\* error values on errs and finished
NilErr == "nil"

PipeErr == "StdoutPipe error"

StartErr == "Start error"

ExitErr == "Wait error"

NoMsg == [type |-> "none"]

\* int(NaN) (main.go 154): the Go specification leaves the result of a
\* float-to-integer conversion that does not fit to the implementation.
\* amd64 gives the least int64, arm64 gives 0.
NaNInts == {"0", "minInt64"}

\* Stats.PrintHistogram: max, the greatest bucket count, 0 without one
HistogramMax(b) ==
    LET counts == {b[i] : i \in 1..Len(b)} \cup {0}
    IN  CHOOSE max \in counts : \A count \in counts : count <= max

\* Stats.PrintHistogram panics: with max = 0 every bar length is
\* int(0 / 0 * 50) = int(NaN), and strings.Repeat panics when its count is
\* negative; with max > 0 a bar length is between 0 and 50
PrintHistogramPanics(s, nan) ==
    /\ Len(s.histogram.thresholds) > 0
    /\ HistogramMax(s.histogram.buckets) = 0
    /\ nan = "minInt64"

\* model.View panics: only its call of PrintHistogram can
ViewPanics(s, nan) == PrintHistogramPanics(s, nan)

\* test() has built the model and Program.Run has called model.Init, which
\* called Run(ctx): the supervising goroutine exists, the command returning
\* initParams is in flight
Init ==
    /\ ctxDone = FALSE
    /\ proc = "notStarted"
    /\ supPc = "pipe"
    /\ supErr = NilErr
    /\ scanPc = "none"
    /\ scanVal = 0
    /\ waitPc = "none"
    /\ pingsClosed = FALSE
    /\ errsClosed = FALSE
    /\ crash = <<>>
    /\ supPanic = <<>>
    /\ linesRead = 0
    /\ stated = <<>>
    /\ dropLog = <<>>
    /\ loopPc = "init"
    /\ nanInt \in NaNInts
    /\ tickPc = "result"
    /\ tickMsg = [type |-> "initParams"]
    /\ quitCmd = FALSE
    /\ stats = InitStats
    /\ now = 0
    /\ pingsRecv = <<>>
    /\ errsSent = <<>>
    /\ errsRecv = <<>>
    /\ applied = <<>>
    /\ cancelSeen = FALSE
    /\ rollLog = <<>>

\* the Go program runs: no panic has ended it and main has not returned
Alive == crash = <<>> /\ loopPc \in {"init", "running"}

\* Program.Run is in its event loop
Looping == Alive /\ loopPc = "running"

\* --------------------------------------------------------------------------
\* Environment: the context and the subprocess
\* --------------------------------------------------------------------------

\* the context given to Run is cancelled
Cancel ==
    /\ Alive
    /\ ~ctxDone
    /\ ctxDone' = TRUE
    /\ UNCHANGED << producerVars, crash, consumerVars >>

\* the subprocess exits on its own, with status 0 or not
ProcExit ==
    /\ Alive
    /\ proc = "running"
    /\ \E st \in {"exitedOk", "exitedErr"} : proc' = st
    /\ UNCHANGED << ctxDone, supPc, supErr, scanPc, scanVal, waitPc, pingsClosed,
                    errsClosed, supPanic, linesRead, stated, dropLog, errsSent, crash, consumerVars >>

Exited == proc \in {"exitedOk", "exitedErr"}

\* --------------------------------------------------------------------------
\* Pinger.Run: the supervising goroutine
\* --------------------------------------------------------------------------

\* the supervising goroutine is at one of its four sends on errs
SendPcs == {"sendPipeErr", "sendStartErr", "sendCancel", "sendExit"}

\* mutant of SupAfterSend: the return after the two start-error sends is
\* missing, so Run goes on to start its goroutines
SupAfterSend_NoReturn(pc) ==
    IF pc \in {"sendPipeErr", "sendStartErr"} THEN "goScanner" ELSE "closeErrs"

\* where the supervising goroutine goes once its send on errs completed:
\* each send is followed by a return, which runs the deferred closes
SupAfterSend(pc) == "closeErrs"

\* cmd := exec.Command(...); stdout, err := cmd.StdoutPipe()
SupStdoutPipe ==
    /\ Alive
    /\ supPc = "pipe"
    /\ \E ok \in BOOLEAN :
         IF ok THEN supPc' = "start" /\ supErr' = supErr
         ELSE supPc' = "sendPipeErr" /\ supErr' = PipeErr
    /\ UNCHANGED << ctxDone, proc, scanPc, scanVal, waitPc, pingsClosed, errsClosed,
                    supPanic, linesRead, stated, dropLog, errsSent, crash, consumerVars >>

\* cmd.Start(); exec.Command binds nothing to ctx
SupStart ==
    /\ Alive
    /\ supPc = "start"
    /\ \E ok \in BOOLEAN :
         IF ok THEN supPc' = "goScanner" /\ supErr' = supErr /\ proc' = "running"
         ELSE supPc' = "sendStartErr" /\ supErr' = StartErr /\ proc' = proc
    /\ UNCHANGED << ctxDone, scanPc, scanVal, waitPc, pingsClosed, errsClosed,
                    supPanic, linesRead, stated, dropLog, errsSent, crash, consumerVars >>

\* go func() { scanner := bufio.NewScanner(stdout) ... }()
SupGoScanner ==
    /\ Alive
    /\ supPc = "goScanner"
    /\ supPc' = "goWait"
    /\ scanPc' = "scan"
    /\ UNCHANGED << ctxDone, proc, supErr, scanVal, waitPc, pingsClosed, errsClosed,
                    supPanic, linesRead, stated, dropLog, errsSent, crash, consumerVars >>

\* finished := make(chan error); go func() { defer close(errs) ... }()
SupGoWait ==
    /\ Alive
    /\ supPc = "goWait"
    /\ supPc' = "select"
    /\ waitPc' = "wait"
    /\ UNCHANGED << ctxDone, proc, supErr, scanPc, scanVal, pingsClosed, errsClosed,
                    supPanic, linesRead, stated, dropLog, errsSent, crash, consumerVars >>

\* select: case <-ctx.Done()
SupSelectCtx ==
    /\ Alive
    /\ supPc = "select"
    /\ ctxDone
    /\ supPc' = "sendCancel"
    /\ supErr' = NilErr
    /\ UNCHANGED << ctxDone, proc, scanPc, scanVal, waitPc, pingsClosed, errsClosed,
                    supPanic, linesRead, stated, dropLog, errsSent, crash, consumerVars >>

\* select: case err := <-finished, which completes the wait goroutine's send
SupSelectFinished ==
    /\ Alive
    /\ supPc = "select"
    /\ waitPc = "sendFinished"
    /\ supPc' = "sendExit"
    /\ supErr' = ExitErr
    /\ waitPc' = "closeErrs"
    /\ UNCHANGED << ctxDone, proc, scanPc, scanVal, pingsClosed, errsClosed,
                    supPanic, linesRead, stated, dropLog, errsSent, crash, consumerVars >>

\* errs <- ... when errs is closed, before or while the send waits: the
\* goroutine panics and goes on to run its deferred calls
SupSendPanic ==
    /\ Alive
    /\ supPc \in SendPcs
    /\ errsClosed
    /\ supPanic' = Append(supPanic, "send on closed channel")
    /\ supPc' = "closeErrs"
    /\ UNCHANGED << ctxDone, proc, supErr, scanPc, scanVal, waitPc, pingsClosed,
                    errsClosed, linesRead, stated, dropLog, errsSent, crash,
                    consumerVars >>

\* defer close(errs); closing a closed channel panics, and the remaining
\* deferred call still runs
SupCloseErrs ==
    /\ Alive
    /\ supPc = "closeErrs"
    /\ IF errsClosed
       THEN /\ supPanic' = Append(supPanic, "close of closed channel")
            /\ errsClosed' = errsClosed
       ELSE /\ errsClosed' = TRUE
            /\ supPanic' = supPanic
    /\ supPc' = "closePings"
    /\ UNCHANGED << ctxDone, proc, supErr, scanPc, scanVal, waitPc, pingsClosed,
                    linesRead, stated, dropLog, errsSent, crash, consumerVars >>

\* defer close(pings)
SupClosePings ==
    /\ Alive
    /\ supPc = "closePings"
    /\ pingsClosed' = TRUE
    /\ supPc' = IF supPanic = <<>> THEN "done" ELSE "fatal"
    /\ UNCHANGED << ctxDone, proc, supErr, scanPc, scanVal, waitPc, errsClosed,
                    supPanic, linesRead, stated, dropLog, errsSent, crash, consumerVars >>

\* the deferred calls of the panicking goroutine have run: the runtime
\* reports its panics and the process exits
SupFatal ==
    /\ Alive
    /\ supPc = "fatal"
    /\ crash' = supPanic
    /\ UNCHANGED << ctxDone, producerVars, consumerVars >>

\* --------------------------------------------------------------------------
\* Pinger.Run: the scanner goroutine
\* --------------------------------------------------------------------------

\* scanner.Scan() returns true with the next line of the subprocess's output
\* and the loop body runs up to its continue or to the send on pings
ScanNext ==
    /\ Alive
    /\ scanPc = "scan"
    /\ linesRead < MaxLines
    /\ \E i \in LineIds :
         /\ linesRead' = linesRead + 1
         /\ stated' = IF LineTable[i].sample < 0 THEN stated
                       ELSE Append(stated, LineTable[i].sample)
         /\ dropLog' = IF Dropped[i] THEN Append(dropLog, Len(stated))
                        ELSE dropLog
         /\ IF Scanned[i].send
            THEN scanPc' = "send" /\ scanVal' = Scanned[i].d
            ELSE scanPc' = "scan" /\ scanVal' = scanVal
    /\ UNCHANGED << ctxDone, proc, supPc, supErr, waitPc, pingsClosed, errsClosed,
                    supPanic, errsSent, crash, consumerVars >>

\* scanner.Scan() returns false: the subprocess has exited and its output
\* has ended (or Wait has closed the pipe)
ScanEnd ==
    /\ Alive
    /\ scanPc = "scan"
    /\ Exited
    /\ scanPc' = "done"
    /\ UNCHANGED << ctxDone, proc, supPc, supErr, scanVal, waitPc, pingsClosed,
                    errsClosed, supPanic, linesRead, stated, dropLog, errsSent, crash, consumerVars >>

\* pings <- duration when pings is closed, before or while the send waits
ScanSendPanic ==
    /\ Alive
    /\ scanPc = "send"
    /\ pingsClosed
    /\ crash' = <<"send on closed channel">>
    /\ UNCHANGED << ctxDone, producerVars, consumerVars >>

\* --------------------------------------------------------------------------
\* Pinger.Run: the wait goroutine
\* --------------------------------------------------------------------------

\* cmd.Wait() returns once the subprocess has exited; a non-nil error is
\* sent on finished, a nil one is not
WaitReturn ==
    /\ Alive
    /\ waitPc = "wait"
    /\ Exited
    /\ waitPc' = IF proc = "exitedErr" THEN "sendFinished" ELSE "closeErrs"
    /\ UNCHANGED << ctxDone, proc, supPc, supErr, scanPc, scanVal, pingsClosed,
                    errsClosed, supPanic, linesRead, stated, dropLog, errsSent, crash, consumerVars >>

\* the wait goroutine's defer close(errs)
WaitCloseErrs ==
    /\ Alive
    /\ waitPc = "closeErrs"
    /\ IF errsClosed
       THEN crash' = <<"close of closed channel">> /\ UNCHANGED << waitPc, errsClosed >>
       ELSE errsClosed' = TRUE /\ waitPc' = "done" /\ crash' = crash
    /\ UNCHANGED << ctxDone, proc, supPc, supErr, scanPc, scanVal, pingsClosed,
                    supPanic, linesRead, stated, dropLog, errsSent, consumerVars >>

\* --------------------------------------------------------------------------
\* The consumer: model.tick and model.Update under the bubbletea program
\* --------------------------------------------------------------------------

\* the keys the terminal delivers in the model
Keys == {"q", "esc", "ctrl+c", "x"}

\* the tea.Msg that tick's `return err` yields: a nil error is a nil message
ErrMsg(e) == IF e = NilErr THEN [type |-> "nil"] ELSE [type |-> "error", val |-> e]

\* tick: case duration := <-m.pings.  A closed channel yields the zero value;
\* otherwise the receive completes the scanner's send
TickPings ==
    /\ Alive
    /\ tickPc = "select"
    /\ \/ scanPc = "send" /\ ~pingsClosed
       \/ pingsClosed /\ Len(pingsRecv) < MaxLines
    /\ LET v == IF pingsClosed THEN 0 ELSE scanVal
       IN  /\ tickMsg' = [type |-> "Duration", val |-> v]
           /\ pingsRecv' = Append(pingsRecv, v)
    /\ scanPc' = IF pingsClosed THEN scanPc ELSE "scan"
    /\ tickPc' = "result"
    /\ UNCHANGED << ctxDone, proc, supPc, supErr, scanVal, waitPc, pingsClosed,
                    errsClosed, supPanic, linesRead, stated, dropLog, errsSent, crash, loopPc, nanInt, quitCmd, stats,
                    now, errsRecv, applied, rollLog, cancelSeen >>

\* tick: case err := <-m.errs.  A closed channel yields nil; otherwise the
\* receive completes the supervising goroutine's send
TickErrs ==
    /\ Alive
    /\ tickPc = "select"
    /\ errsClosed \/ supPc \in SendPcs
    /\ LET v == IF errsClosed THEN NilErr ELSE supErr
       IN  /\ tickMsg' = ErrMsg(v)
           /\ errsRecv' = Append(errsRecv, v)
    /\ IF errsClosed
       THEN UNCHANGED << supPc, errsSent >>
       ELSE supPc' = SupAfterSend(supPc) /\ errsSent' = Append(errsSent, supErr)
    /\ tickPc' = "result"
    /\ UNCHANGED << ctxDone, proc, supErr, scanPc, scanVal, waitPc, pingsClosed,
                    errsClosed, supPanic, linesRead, stated, dropLog, crash, loopPc, nanInt, quitCmd, stats, now,
                    pingsRecv, applied, rollLog, cancelSeen >>

\* tick: case <-m.ctx.Done(): return tea.Quit, the function itself
TickCtxDone ==
    /\ Alive
    /\ tickPc = "select"
    /\ ctxDone
    /\ tickMsg' = [type |-> "func"]
    /\ tickPc' = "result"
    /\ cancelSeen' = TRUE
    /\ UNCHANGED << ctxDone, producerVars, crash, loopPc, nanInt, quitCmd, stats,
                    now, pingsRecv, errsRecv, applied, rollLog >>

\* model.Update: the command it returns for a message
UpdateCmd(msg) ==
    CASE msg.type = "KeyMsg" ->
           IF msg.key = "q" \/ msg.key = "esc" \/ msg.key = "ctrl+c"
           THEN "quit" ELSE "nil"
      [] msg.type = "initParams" -> "tick"
      [] msg.type = "Duration" -> "tick"
      [] msg.type = "error" -> "quit"
      [] OTHER -> "nil"

\* model.Update: m.stats after a message
UpdateStats(s, msg, t1, t2) ==
    IF msg.type = "Duration"
    THEN StatsUpdate(s, Milliseconds(msg.val), t1, t2)
    ELSE s

\* Program.Run renders the initial model before it enters its event loop
LoopFirstRender ==
    /\ Alive
    /\ loopPc = "init"
    /\ loopPc' = IF ViewPanics(stats, nanInt) THEN "viewPanic" ELSE "running"
    /\ UNCHANGED << ctxDone, producerVars, crash, nanInt, tickPc, tickMsg, quitCmd,
                    stats, now, pingsRecv, errsRecv, applied, cancelSeen, rollLog >>

\* the program's event loop takes the message a command returned (initParams
\* from Init's command, or tick's result), calls model.Update with it and
\* renders model.View
LoopCmdMsg ==
    /\ Looping
    /\ tickPc = "result"
    /\ \E t1 \in now..MaxClock : \E t2 \in t1..MaxClock :
         /\ stats' = UpdateStats(stats, tickMsg, t1, t2)
         /\ now' = IF tickMsg.type # "Duration" THEN now
                   ELSE IF stats'.windowStart # stats.windowStart THEN t2 ELSE t1
    /\ applied' = IF tickMsg.type = "Duration"
                  THEN Append(applied, Milliseconds(tickMsg.val)) ELSE applied
    /\ rollLog' = IF tickMsg.type = "Duration" /\ stats'.window.Count = 0
                  THEN Append(rollLog, Len(applied')) ELSE rollLog
    /\ tickPc' = IF UpdateCmd(tickMsg) = "tick" THEN "select" ELSE "idle"
    /\ quitCmd' = (quitCmd \/ UpdateCmd(tickMsg) = "quit")
    /\ tickMsg' = NoMsg
    /\ loopPc' = IF ViewPanics(stats', nanInt) THEN "viewPanic" ELSE loopPc
    /\ UNCHANGED << ctxDone, producerVars, crash, nanInt, pingsRecv, errsRecv,
                    cancelSeen >>

\* the event loop takes a key press, calls model.Update with it and renders
\* model.View
LoopKeyMsg ==
    /\ Looping
    /\ \E k \in Keys :
         LET quit == UpdateCmd([type |-> "KeyMsg", key |-> k]) = "quit"
         IN  /\ quitCmd' = (quitCmd \/ quit)
             /\ cancelSeen' = (cancelSeen \/ quit)
    /\ loopPc' = IF ViewPanics(stats, nanInt) THEN "viewPanic" ELSE loopPc
    /\ UNCHANGED << ctxDone, producerVars, crash, nanInt, tickPc, tickMsg, stats,
                    now, pingsRecv, errsRecv, applied, rollLog >>

\* the event loop takes the message of the tea.Quit command: Program.Run and
\* test return and the process exits
LoopQuitMsg ==
    /\ Looping
    /\ quitCmd
    /\ loopPc' = "quit"
    /\ UNCHANGED << ctxDone, producerVars, crash, nanInt, tickPc, tickMsg, quitCmd, stats,
                    now, pingsRecv, errsRecv, applied, rollLog, cancelSeen >>

\* --------------------------------------------------------------------------
\* Specification
\* --------------------------------------------------------------------------

Next ==
    \/ Cancel
    \/ ProcExit
    \/ SupStdoutPipe
    \/ SupStart
    \/ SupGoScanner
    \/ SupGoWait
    \/ SupSelectCtx
    \/ SupSelectFinished
    \/ SupSendPanic
    \/ SupCloseErrs
    \/ SupClosePings
    \/ SupFatal
    \/ ScanNext
    \/ ScanEnd
    \/ ScanSendPanic
    \/ WaitReturn
    \/ WaitCloseErrs
    \/ TickPings
    \/ TickErrs
    \/ TickCtxDone
    \/ LoopFirstRender
    \/ LoopCmdMsg
    \/ LoopKeyMsg
    \/ LoopQuitMsg

Spec == Init /\ [][Next]_vars

\* the steps of each goroutine of Run and of the consumer; the Go scheduler
\* runs every goroutine that can take a step
SupStep ==
    \/ SupStdoutPipe
    \/ SupStart
    \/ SupGoScanner
    \/ SupGoWait
    \/ SupSelectCtx
    \/ SupSelectFinished
    \/ SupSendPanic
    \/ SupCloseErrs
    \/ SupClosePings
    \/ SupFatal

\* the scanner goroutine's own steps; ScanNext is left out, a line arrives
\* when the subprocess writes one and scanner.Scan() blocks until then
ScanStep == ScanEnd \/ ScanSendPanic

WaitStep == WaitReturn \/ WaitCloseErrs

ConsumerStep ==
    \/ TickPings
    \/ TickErrs
    \/ TickCtxDone
    \/ LoopFirstRender
    \/ LoopCmdMsg
    \/ LoopQuitMsg

\* fair scheduling of the goroutines; the cancellation, the subprocess's
\* output and exit and the key presses come from outside and need never
\* happen
SpecFair ==
    /\ Init
    /\ [][Next]_vars
    /\ WF_vars(SupStep)
    /\ WF_vars(ScanStep)
    /\ WF_vars(WaitStep)
    /\ WF_vars(ConsumerStep)

\* --------------------------------------------------------------------------
\* The statistics engine on its own: Stats.Update called with any sample at
\* any time
\* --------------------------------------------------------------------------

\* number of Stats.Update calls in one run
MaxSamples == 3

\* last clock reading of a run of the statistics engine on its own; two
\* windows can complete within it
MaxStatsClock == 6

\* the samples (milliseconds) Stats.Update is called with: below, at and
\* above thresholds, zero included (a reply faster than a millisecond)
SampleValues == {0, 1, 2, 1000, 1001}

\* the thresholds NewHistogram is called with: those of test(), and a short
\* ascending sequence
ThresholdSets == {Thresholds, <<2, 5>>}

\* the Stats value of test() with any of the threshold sequences, before the
\* first sample; the producer and the event loop play no part
StatsInit ==
    /\ \E th \in ThresholdSets :
         stats = [InitStats EXCEPT !.histogram = NewHistogram(th)]
    /\ now = 0
    /\ applied = <<>>
    /\ rollLog = <<>>
    /\ ctxDone = FALSE
    /\ proc = "notStarted"
    /\ supPc = "pipe"
    /\ supErr = NilErr
    /\ scanPc = "none"
    /\ scanVal = 0
    /\ waitPc = "none"
    /\ pingsClosed = FALSE
    /\ errsClosed = FALSE
    /\ crash = <<>>
    /\ supPanic = <<>>
    /\ linesRead = 0
    /\ stated = <<>>
    /\ dropLog = <<>>
    /\ loopPc = "running"
    /\ nanInt \in NaNInts
    /\ tickPc = "idle"
    /\ tickMsg = NoMsg
    /\ quitCmd = FALSE
    /\ pingsRecv = <<>>
    /\ errsSent = <<>>
    /\ errsRecv = <<>>
    /\ cancelSeen = FALSE

\* mutant of ClockAdvance: a timer rolls the window over once its span has
\* elapsed, without a sample
ClockAdvance_TimerRollover ==
    /\ now < MaxStatsClock
    /\ now' = now + 1
    /\ stats' = IF now' - stats.windowStart > stats.windowSize
                THEN [stats EXCEPT !.lastWindow = stats.window,
                                   !.window = WindowReset(stats.window),
                                   !.windowStart = now']
                ELSE stats
    /\ UNCHANGED << ctxDone, producerVars, crash, loopPc, nanInt, tickPc, tickMsg, quitCmd,
                    pingsRecv, errsRecv, applied, cancelSeen, rollLog >>

\* time passes: the next time.Now() reads later
ClockAdvance ==
    /\ now < MaxStatsClock
    /\ now' = now + 1
    /\ UNCHANGED << ctxDone, producerVars, crash, loopPc, nanInt, tickPc, tickMsg, quitCmd,
                    stats, pingsRecv, errsRecv, applied, cancelSeen, rollLog >>

\* s.Update(d): the first time.Now() reads the clock, the second reads it
\* then or later
StatsSample ==
    /\ Len(applied) < MaxSamples
    /\ \E d \in SampleValues : \E t2 \in now..MaxStatsClock :
         /\ stats' = StatsUpdate(stats, d, now, t2)
         /\ applied' = Append(applied, d)
         /\ now' = IF stats'.windowStart # stats.windowStart THEN t2 ELSE now
    /\ rollLog' = IF stats'.window.Count = 0
                  THEN Append(rollLog, Len(applied')) ELSE rollLog
    /\ UNCHANGED << ctxDone, producerVars, crash, loopPc, nanInt, tickPc, tickMsg, quitCmd,
                    pingsRecv, errsRecv, cancelSeen >>

StatsNext == ClockAdvance \/ StatsSample

SpecStats == StatsInit /\ [][StatsNext]_vars

\* --------------------------------------------------------------------------
\* Claims
\* --------------------------------------------------------------------------

\* C1: every run of Run sends exactly one outcome on errs, never zero and
\* never more than one, and closes pings after it: so whenever errs is closed
\* or the supervising goroutine has returned, exactly one value has been sent
\* on errs, and pings is closed once the supervising goroutine has returned.
C1_ExactlyOneOutcome ==
    /\ Len(errsSent) <= 1
    /\ errsClosed => Len(errsSent) = 1
    /\ supPc = "done" => Len(errsSent) = 1 /\ pingsClosed

\* C2: the outcome of Run is never delivered while the subprocess is still
\* running; in particular the cancelled outcome (nil) is delivered only after
\* the subprocess has been terminated.
C2_NoOutcomeWhileRunning == errsSent # <<>> => proc # "running"

\* C3: after the outcome of Run has been delivered the scanner goroutine
\* never starts another send on pings.
C3_NoSendAfterOutcome ==
    [][errsSent # <<>> => ~(scanPc # "send" /\ scanPc' = "send")]_vars

\* C4: when cmd.Wait returned a non-nil error and the context is not
\* cancelled, every value the consumer receives from errs is that error.
C4_ExitErrorDelivered ==
    (proc = "exitedErr" /\ ~ctxDone) =>
        \A i \in 1..Len(errsRecv) : errsRecv[i] = ExitErr

\* C5: after a clean exit of the subprocess without cancellation the
\* supervising goroutine does not stay in its select with nothing but a
\* cancellation able to wake it (the wait goroutine has finished and sent
\* nothing on finished).
C5_NotBlockedAfterCleanExit ==
    ~(proc = "exitedOk" /\ ~ctxDone /\ waitPc = "done" /\ supPc = "select")

\* the subprocess could not be launched: StdoutPipe or Start returned an error
StartFailed == supErr \in {PipeErr, StartErr}

\* C6: when the subprocess cannot be launched, the only value sent on errs
\* and the only value the consumer receives from it is the start error, it
\* has been sent once the supervising goroutine returns, nothing is sent on
\* pings, the scanner and wait goroutines are never started, and Stats.Update
\* is never called (the Stats value is the one test() built).
C6_StartFailure ==
    StartFailed =>
        /\ errsSent \in {<<>>, <<supErr>>}
        /\ errsRecv = errsSent
        /\ supPc \in {"closeErrs", "closePings", "done"} => errsSent = <<supErr>>
        /\ scanPc = "none" /\ waitPc = "none" /\ proc = "notStarted"
        /\ linesRead = 0 /\ pingsRecv = <<>>
        /\ applied = <<>> /\ stats = InitStats

\* C6 witness: Start failed, the consumer received the start error, Run has
\* closed both channels and the program has quit.
C6_Witness ==
    /\ supErr = StartErr /\ supPc = "done" /\ errsRecv = <<StartErr>>
    /\ pingsClosed /\ errsClosed /\ loopPc = "quit"

\* C7: when the cancellation won the select, the wait goroutine is never left
\* blocked in its send on finished, which nobody will receive.
C7_LoserNotBlocked ==
    ~(waitPc = "sendFinished" /\ supPc \in {"sendCancel", "closeErrs", "closePings", "done"})

\* the consumer loop is alive with no command in flight and no quit issued
Idle == Alive /\ tickPc = "idle" /\ ~quitCmd

\* C8: after the consumer received a terminal outcome from errs (the context
\* is not cancelled, so it is no cancellation) the loop is never alive idle:
\* model.Update issued quit.
C8_QuitOnOutcome == (errsRecv # <<>> /\ ~ctxDone) => ~Idle

\* C9: once the consumer loop has observed cancellation (tick selected
\* ctx.Done, or Update handled a quit key), Stats.Update is not called again.
C9_NoUpdateAfterCancel == [][cancelSeen => applied' = applied]_vars

IsPrefix(a, b) == Len(a) <= Len(b) /\ SubSeq(b, 1, Len(a)) = a

\* C10: the samples received from pings are the latencies of the reply lines
\* read so far, in the order read, all but at most the one being sent; the
\* arguments of Stats.Update are their milliseconds, in the same order, all
\* but at most the one being handled.
C10_SamplesInOrder ==
    /\ IsPrefix(pingsRecv, stated)
    /\ Len(stated) - Len(pingsRecv) <= 1
    /\ IsPrefix(applied, [i \in 1..Len(pingsRecv) |-> pingsRecv[i] \div Millisecond])
    /\ Len(pingsRecv) - Len(applied) <= 1

\* sum, least and greatest element of a sequence of numbers
RECURSIVE SeqSum(_)
SeqSum(q) == IF q = <<>> THEN 0 ELSE q[1] + SeqSum(Tail(q))

SeqMin(q) == CHOOSE x \in {q[i] : i \in 1..Len(q)} : \A i \in 1..Len(q) : x <= q[i]

SeqMax(q) == CHOOSE x \in {q[i] : i \in 1..Len(q)} : \A i \in 1..Len(q) : x >= q[i]

\* C11: the lifetime window starts empty and receives every sample, zero
\* included: after n >= 1 samples its Min, Max, Total and Count are their
\* minimum, maximum, sum and n and Average() is floor(Total / n); Average()
\* of the empty window is 0.
C11_WindowAggregates ==
    IF applied = <<>>
    THEN WindowAverage(stats.totals) = 0
    ELSE /\ stats.totals.Min = SeqMin(applied)
         /\ stats.totals.Max = SeqMax(applied)
         /\ stats.totals.Total = SeqSum(applied)
         /\ stats.totals.Count = Len(applied)
         /\ WindowAverage(stats.totals) = SeqSum(applied) \div Len(applied)

\* the samples counted by bucket i: above the threshold before it (if any)
\* and not above its own
InBucket(th, i) ==
    { k \in 1..Len(applied) :
        /\ applied[k] <= th[i]
        /\ i = 1 \/ th[i - 1] < applied[k] }

RECURSIVE BucketSum(_, _)
BucketSum(b, n) == IF n = 0 THEN 0 ELSE b[n] + BucketSum(b, n - 1)

\* C12: total is the number of samples, bucket i counts exactly the samples
\* d with t(i-1) < d <= t(i), and the bucket counts add up to at most total,
\* to total exactly when no sample exceeds the last threshold.
C12_HistogramBuckets ==
    LET h == stats.histogram
        n == Len(h.thresholds)
        sum == BucketSum(h.buckets, n)
    IN  /\ h.total = Len(applied)
        /\ \A i \in 1..n : h.buckets[i] = Cardinality(InBucket(h.thresholds, i))
        /\ sum <= h.total
        /\ sum = h.total <=> \A k \in 1..Len(applied) : applied[k] <= h.thresholds[n]

\* C12 witness: three samples, one equal to a threshold that is not the
\* first and one above the last threshold.
C12_Witness ==
    LET th == stats.histogram.thresholds
    IN  /\ Len(applied) = 3
        /\ \E k \in 1..3 : \E i \in 2..Len(th) : applied[k] = th[i]
        /\ \E k \in 1..3 : applied[k] > th[Len(th)]

\* C13: a call of Stats.Update(d) rolls over exactly when the time since
\* windowStart, read after d was routed, strictly exceeds windowSize; then
\* lastWindow is the window with d in it, the window is empty and windowStart
\* is the time read; otherwise lastWindow and windowStart do not change.
C13_Rollover ==
    [][applied' # applied =>
         LET d == applied'[Len(applied')]
             full == WindowUpdate(stats.window, d)
         IN  IF now - stats.windowStart > stats.windowSize
             THEN /\ stats'.lastWindow = full
                  /\ stats'.window = EmptyWindow
                  /\ stats'.windowStart = now'
                  /\ rollLog' = Append(rollLog, Len(applied'))
             ELSE /\ stats'.lastWindow = stats.lastWindow
                  /\ stats'.windowStart = stats.windowStart
                  /\ stats'.window = full
                  /\ rollLog' = rollLog]_vars

\* C13 witness: three samples, the third arrived after the span had elapsed:
\* exactly one rollover, at the third, and lastWindow holds all three.
C13_Witness ==
    /\ rollLog = <<3>>
    /\ stats.lastWindow.Count = 3
    /\ stats.window = EmptyWindow
    /\ stats.windowStart > stats.windowSize

\* C14: a step in which Stats.Update is not called leaves the Stats value
\* unchanged, whatever the clock reads.
C14_TimeAloneChangesNothing == [][applied' = applied => stats' = stats]_vars

\* C14 witness: the clock is past the end of a window that holds samples,
\* and no rollover has happened.
C14_Witness ==
    /\ now - stats.windowStart > stats.windowSize
    /\ stats.window.Count > 0
    /\ rollLog = <<>>
    /\ stats.lastWindow = EmptyWindow

WindowOk(w) ==
    /\ w.Count = 0 => w.Min = 0 /\ w.Max = 0 /\ w.Total = 0
    /\ w.Count > 0 => w.Min <= w.Max

\* C15: the current, the last-completed and the lifetime window each have
\* Min = Max = Total = 0 when Count = 0 and Min <= Max when Count > 0.
C15_WindowInvariant ==
    WindowOk(stats.window) /\ WindowOk(stats.lastWindow) /\ WindowOk(stats.totals)

\* C15 witness: after a rollover the current window is empty, the last one
\* holds samples including a zero, and the lifetime window spans 0..1001.
C15_Witness ==
    /\ rollLog # <<>>
    /\ stats.window.Count = 0
    /\ stats.lastWindow.Count > 1
    /\ \E k \in 1..Len(applied) : applied[k] = 0
    /\ stats.totals.Max = 1001

\* the number of samples applied up to and including the last rollover
LastRoll == IF rollLog = <<>> THEN 0 ELSE rollLog[Len(rollLog)]

\* C18: after n calls of Stats.Update the lifetime window and the histogram
\* have counted all n samples, the lifetime Total is their sum, and the
\* current window's Count is the number of samples since the last rollover.
C18_EverySampleRouted ==
    /\ stats.totals.Count = Len(applied)
    /\ stats.histogram.total = Len(applied)
    /\ stats.totals.Total = SeqSum(applied)
    /\ stats.window.Count = Len(applied) - LastRoll

\* C18 witness: the first sample rolled the window over and two more
\* followed it into the new window.
C18_Witness ==
    /\ rollLog = <<1>>
    /\ Len(applied) = 3
    /\ stats.window.Count = 2
    /\ stats.totals.Count = 3
    /\ stats.histogram.total = 3

\* C19: while no rollover has happened lastWindow is the empty window;
\* after one it holds at least one sample, namely those applied between
\* the last two rollovers, the triggering sample included.
C19_LastWindowNeverEmpty ==
    IF rollLog = <<>>
    THEN stats.lastWindow = EmptyWindow
    ELSE /\ stats.lastWindow.Count >= 1
         /\ stats.lastWindow.Count =
              LastRoll - (IF Len(rollLog) = 1 THEN 0 ELSE rollLog[Len(rollLog) - 1])

\* C19 witness: the rollover came with the second sample, lastWindow holds
\* both, and a third sample sits in the new window.
C19_Witness ==
    /\ rollLog = <<2>>
    /\ stats.lastWindow.Count = 2
    /\ Len(applied) = 3
    /\ stats.window.Count = 1

\* C16: the step in which the scanner reads a line that is not blank, not
\* the PING banner and does not match PING_LINE states no sample, sends
\* nothing on pings, writes and closes nothing on errs, and leaves the
\* scanner at scanner.Scan() for the next line.
C16_UnrecognisedDropped ==
    [][dropLog' # dropLog =>
         /\ scanPc' = "scan"
         /\ scanVal' = scanVal
         /\ stated' = stated
         /\ pingsRecv' = pingsRecv
         /\ supErr' = supErr
         /\ errsSent' = errsSent
         /\ errsRecv' = errsRecv
         /\ errsClosed' = errsClosed
         /\ pingsClosed' = pingsClosed
         /\ crash' = crash]_vars

\* C16 witness: the first line read was unrecognised, a data line read
\* after it was delivered, and errs has not been written or closed.
C16_Witness ==
    /\ dropLog # <<>>
    /\ dropLog[1] = 0
    /\ stated # <<>>
    /\ pingsRecv = stated
    /\ errsSent = <<>>
    /\ ~errsClosed
    /\ crash = <<>>

\* C17: no goroutine of Run sends on a closed channel or closes a closed
\* channel (the runtime panics that end the program), and no send on errs
\* or on pings is pending while its channel is closed.
C17_NoChannelMisuse ==
    /\ crash = <<>>
    /\ supPanic = <<>>
    /\ errsClosed => supPc \notin SendPcs
    /\ pingsClosed => scanPc # "send"

\* the three goroutines of Run have returned (those never started count)
Terminated ==
    /\ supPc = "done"
    /\ scanPc \in {"none", "done"}
    /\ waitPc \in {"none", "done"}

\* a goroutine waits in a send on pings or errs, which a receiving consumer
\* completes
AwaitsConsumer == supPc \in SendPcs \/ scanPc = "send"

\* C20: under fair scheduling, whenever the subprocess has exited or the
\* context is cancelled, eventually the three goroutines have all returned,
\* or the program has ended, or a goroutine is waiting only for the
\* consumer to receive.
C20_GoroutinesTerminate ==
    (Alive /\ (Exited \/ ctxDone)) ~> (~Alive \/ Terminated \/ AwaitsConsumer)

====
